---- MODULE Spec2Model ----
(***************************************************************************)
(* Model of the scheduling core of llgsps_project:                         *)
(*   backend/app/core/latency.py        LatencyEstimator                   *)
(*   backend/app/scheduling/optimizer.py AdvancedSchedulingOptimizer       *)
(*   backend/app/scheduling/baseline.py  create_baseline_schedule          *)
(*                                                                         *)
(* Times of passes and deadlines are integers in milliseconds since an     *)
(* arbitrary epoch; computed durations are kept in microseconds, the       *)
(* resolution of Python's datetime/timedelta.  Lists are sequences, so the *)
(* Python index i is the position i+1 here (consistently for every index). *)
(*                                                                         *)
(* Demands are mappings.  solve_optimization_model puts them in a set:     *)
(* plain dicts make that raise TypeError, hashable mappings are            *)
(* de-duplicated by value and come out in an arbitrary order.  Both are    *)
(* outcomes of the model (SolveOptimizationModelRaises,                    *)
(* SolveOptimizationModel).                                                *)
(*                                                                         *)
(* Specifications:                                                         *)
(*   Spec          one create_advanced_schedule call on a fresh instance    *)
(*   SpecInstance  one instance called again and again, with solver_timeout *)
(*                 and with passes whose time fields do not parse           *)
(*   SpecLatency   estimate_transfer_time_detailed called on its own        *)
(*   SpecBaseline  create_baseline_schedule, one pass of the loop at a time *)
(*   SpecConstraints  create_advanced_schedule with custom constraints,    *)
(*                 every objective and priorities other than 1.0           *)
(*   SpecCallers   either scheduler started by a caller that keeps its lists *)
(***************************************************************************)
EXTENDS Integers, Sequences, FiniteSets, TLC

VARIABLES
    pc,                    \* position inside the running call
    passes,                \* argument: list of passes
    demands,               \* argument: list of demands
    objective,             \* argument: OptimizationObjective
    constraints,           \* argument: list of SchedulingConstraint
    solver_timeout,        \* argument: solver_timeout (NoTimeout when not given)
    feasible_assignments,  \* local of create_advanced_schedule
    model,                 \* the cp_model.CpModel built by create_cp_sat_model
    max_time_in_seconds,   \* solver.parameters.max_time_in_seconds of the last solve
    status,                \* solver.Solve(model)
    selected,              \* candidates i with solver.BooleanValue(assignment_vars[i])
    result,                \* the returned OptimizationResult
    exception,             \* the exception that left the call, "" when none
    solver_timeout_seconds,\* field of the AdvancedSchedulingOptimizer instance
    latency_call,          \* arguments of a call of estimate_transfer_time_detailed
    latency_result,        \* what that call returned
    sorted_passes,         \* create_baseline_schedule: passes the loop has not visited
    baseline               \* create_baseline_schedule: remaining_demands,
                           \* scheduled_contacts and station_busy_until

\* arguments and locals of create_advanced_schedule
call_vars == <<pc, passes, demands, objective, constraints, solver_timeout,
               feasible_assignments, model, max_time_in_seconds, status, selected,
               result, exception>>

latency_vars == <<latency_call, latency_result>>

baseline_vars == <<sorted_passes, baseline>>

vars == <<call_vars, solver_timeout_seconds, latency_vars, baseline_vars>>

-----------------------------------------------------------------------------
(* Bounds of the model *)

MaxPasses == 2
MaxDemands == 2

-----------------------------------------------------------------------------
(* Generic helpers *)

Min(a, b) == IF a <= b THEN a ELSE b
Max(a, b) == IF a >= b THEN a ELSE b

Range(s) == {s[i] : i \in 1..Len(s)}

RECURSIVE SumSeq(_)
SumSeq(s) == IF s = <<>> THEN 0 ELSE Head(s) + SumSeq(Tail(s))

RECURSIVE SumOver(_, _)
\* sum of f[i] over the finite set S of indices
SumOver(f, S) ==
    IF S = {} THEN 0
    ELSE LET i == CHOOSE x \in S : TRUE IN f[i] + SumOver(f, S \ {i})

\* s restricted to the positions satisfying Keep, order kept
RECURSIVE SelectPositions(_, _, _)
SelectPositions(s, K, i) ==
    IF i > Len(s) THEN <<>>
    ELSE (IF i \in K THEN <<s[i]>> ELSE <<>>) \o SelectPositions(s, K, i + 1)

\* the lists over S of length at most n
SeqsUpTo(S, n) == UNION {[1..k -> S] : k \in 0..n}

-----------------------------------------------------------------------------
(* LatencyEstimator (latency.py) *)

default_data_rate_mbps == 150
protocol_overhead_pct == 15
error_correction_overhead_pct == 8
handshake_time_us == 2000000
avg_elevation_deg == 45

\* weather_degradation table, in percent; unknown keys count as 100
weather_degradation(w) ==
    CASE w = "clear" -> 100
      [] w = "light_clouds" -> 95
      [] w = "heavy_clouds" -> 85
      [] w = "rain" -> 70
      [] w = "storm" -> 50
      [] OTHER -> 100

\* round trip delay 2 * slant_range / c for 408 km altitude at 45 degrees
\* elevation: 0.003739885... s
propagation_delay_us == 3740

\* degradation factor in units of 1/10000
estimate_data_rate_degradation(elevation_deg, w) ==
    Min(100, Max(30, (elevation_deg * 100) \div 90)) * weather_degradation(w)

\* Faulty variant: the base rate is used as it is, without degradation and
\* without protocol or error-correction overhead.
RateWithoutDegradation(base_rate_mbps, elevation_deg, w) == base_rate_mbps * 10000

\* effective rate in units of 0.0001 Mbps, floor of 1 Mbps; the three
\* multiplications are taken one after the other, as the code does
calculate_effective_data_rate(base_rate_mbps, elevation_deg, w) ==
    LET degraded == base_rate_mbps * estimate_data_rate_degradation(elevation_deg, w)
        after_protocol == (degraded * (100 - protocol_overhead_pct)) \div 100
        after_fec == (after_protocol * (100 - error_correction_overhead_pct)) \div 100
    IN  Max(10000, after_fec)

\* Faulty variant: megabytes are taken for megabits (no factor 8).
TransferTimeOfMegabits(data_mb, rate) ==
    LET n == data_mb * 10000
        r1 == (n % rate) * 1000
        r2 == (r1 % rate) * 1000
    IN  (n \div rate) * 1000000 + (r1 \div rate) * 1000 + (r2 \div rate)

\* (data_demand_mb * 8) / effective_rate_mbps, in microseconds (staged
\* division keeps every intermediate below 2^31)
data_transfer_time_us(data_mb, rate) ==
    LET n == data_mb * 80000
        r1 == (n % rate) * 1000
        r2 == (r1 % rate) * 1000
    IN  (n \div rate) * 1000000 + (r1 \div rate) * 1000 + (r2 \div rate)

total_overhead_time_us == handshake_time_us + 2 * propagation_delay_us

\* round(x, 2) of a time in seconds: from microseconds to centiseconds
Round2(us) == (us + 5000) \div 10000

\* round(a / b, 3) in thousandths for 0 <= a <= b, digit by digit so that
\* no intermediate exceeds 10 * b
Round3Ratio(a, b) ==
    LET d1 == (a * 10) \div b
        r1 == (a * 10) % b
        d2 == (r1 * 10) \div b
        r2 == (r1 * 10) % b
        d3 == (r2 * 10) \div b
        r3 == (r2 * 10) % b
    IN  d1 * 100 + d2 * 10 + d3 + (IF (r3 * 10) \div b >= 5 THEN 1 ELSE 0)

\* A time field of a pass is a time in milliseconds, or one of two values
\* that do not parse: the key is absent (pass_info['rise_time'] raises
\* KeyError), or the text is no ISO time (fromisoformat raises ValueError).
\* Text that is no ISO time is put after every time, where a string such as
\* "invalid" sorts against "2025-...".
Missing == -2
Unparseable == 2000000000

TimeParses(t) == t # Missing /\ t # Unparseable

\* the None that estimate_transfer_time_detailed returns from its except branch
None == [is_none |-> TRUE]

\* estimate_transfer_time_detailed(pass_info, data_mb, base_rate, weather) at
\* altitude 408 km; the schedulers call it with base rate 150 Mbps and
\* weather clear
estimate_transfer_time_detailed(p, data_mb, base_rate_mbps, w) ==
    IF ~(TimeParses(p.rise_time) /\ TimeParses(p.set_time)) THEN None
    ELSE
    LET pass_duration_us == (p.set_time - p.rise_time) * 1000
        rate == calculate_effective_data_rate(base_rate_mbps, avg_elevation_deg, w)
        transfer == data_transfer_time_us(data_mb, rate)
        total == transfer + total_overhead_time_us
    IN  [ is_feasible |-> pass_duration_us >= total,
          total_required_time_cs |-> Round2(total),
          total_required_time_us |-> total,
          data_transfer_time_cs |-> Round2(transfer),
          overhead_time_cs |-> Round2(total_overhead_time_us),
          pass_duration_us |-> pass_duration_us,
          \* round(effective_rate_mbps, 2), in 0.01 Mbps
          effective_data_rate |-> (rate + 50) \div 100,
          \* in thousandths (total stays below 214 s in every pool)
          data_efficiency |-> IF total > 0 THEN Round3Ratio(transfer, total) ELSE 0 ]

\* `estimation and estimation['is_feasible']`
EstimationFeasible(e) == e # None /\ e.is_feasible

-----------------------------------------------------------------------------
(* Inputs *)

\* demand.get('deadline') of a demand without a deadline
NoDeadline == -1

\* Passes as the pass predictor gives them: rise_time and set_time carry the
\* UTC designator, so they parse to timezone-aware datetimes.
PassPool ==
    { [rise_time |-> 900,   set_time |-> 30900],
      [rise_time |-> 2100,  set_time |-> 7100],
      [rise_time |-> 40000, set_time |-> 70000] }

\* priority is in tenths (10 is the default 1.0); deadline_aware tells whether
\* the deadline string carries a UTC offset
DemandPool ==
    { [satellite |-> "S1", data_mb |-> 0,   priority |-> 10,
       deadline |-> NoDeadline, deadline_aware |-> FALSE],
      [satellite |-> "S1", data_mb |-> 150, priority |-> 10,
       deadline |-> NoDeadline, deadline_aware |-> FALSE],
      [satellite |-> "S2", data_mb |-> 500, priority |-> 10,
       deadline |-> NoDeadline, deadline_aware |-> FALSE],
      [satellite |-> "S2", data_mb |-> 150, priority |-> 25,
       deadline |-> 5000, deadline_aware |-> TRUE],
      [satellite |-> "S2", data_mb |-> 0,   priority |-> 10,
       deadline |-> 5000, deadline_aware |-> FALSE] }

\* the three strategies compare_scheduling_strategies runs
Objectives ==
    { "MAXIMIZE_DATA_THROUGHPUT", "MAXIMIZE_PRIORITY_WEIGHTED",
      "BALANCE_EFFICIENCY_FAIRNESS" }

MinimumGap(g) == [constraint_type |-> "minimum_gap", value |-> g]
MaxContacts(n) == [constraint_type |-> "maximum_contacts_per_satellite", value |-> n]

ConstraintLists ==
    { <<>>, <<MinimumGap(300)>>, <<MaxContacts(1)>> }

-----------------------------------------------------------------------------
(* AdvancedSchedulingOptimizer.preprocess_scheduling_data *)

\* the (pass, demand) pair visited k-th by the nested loops (pass outer)
PassIdxAt(ds, k) == ((k - 1) \div Len(ds)) + 1
DemandIdxAt(ds, k) == ((k - 1) % Len(ds)) + 1

EstimationAt(ps, ds, k) ==
    estimate_transfer_time_detailed(ps[PassIdxAt(ds, k)], ds[DemandIdxAt(ds, k)].data_mb,
                                    default_data_rate_mbps, "clear")

\* the assignment record of a feasible pair; duration_seconds is
\* int(estimation['total_required_time_seconds'])
AssignmentAt(ps, ds, k) ==
    LET estimation == EstimationAt(ps, ds, k)
    IN  [ pass_idx |-> PassIdxAt(ds, k),
          demand_idx |-> DemandIdxAt(ds, k),
          pass |-> ps[PassIdxAt(ds, k)],
          demand |-> ds[DemandIdxAt(ds, k)],
          duration_seconds |-> estimation.total_required_time_cs \div 100,
          data_efficiency |-> estimation.data_efficiency,
          priority |-> ds[DemandIdxAt(ds, k)].priority,
          deadline |-> ds[DemandIdxAt(ds, k)].deadline ]

\* Faulty variant: the is_feasible test is dropped and every pair is kept.
KeepEveryPair(ps, ds) ==
    [k \in 1..(Len(ps) * Len(ds)) |-> AssignmentAt(ps, ds, k)]

\* Faulty variant: a pass whose estimation is None ends the loops, as an
\* exception leaving the estimator would.
RECURSIVE PreprocessStopsAtNone(_, _, _)
PreprocessStopsAtNone(ps, ds, k) ==
    IF k > Len(ps) * Len(ds) \/ EstimationAt(ps, ds, k) = None THEN <<>>
    ELSE (IF EstimationFeasible(EstimationAt(ps, ds, k))
          THEN <<AssignmentAt(ps, ds, k)>> ELSE <<>>)
         \o PreprocessStopsAtNone(ps, ds, k + 1)

\* the nested loops from the k-th pair on: a pair is appended when its
\* estimation is not None and is feasible
RECURSIVE PreprocessLoop(_, _, _)
PreprocessLoop(ps, ds, k) ==
    IF k > Len(ps) * Len(ds) THEN <<>>
    ELSE (IF EstimationFeasible(EstimationAt(ps, ds, k))
          THEN <<AssignmentAt(ps, ds, k)>> ELSE <<>>)
         \o PreprocessLoop(ps, ds, k + 1)

preprocess_scheduling_data(ps, ds) == PreprocessLoop(ps, ds, 1)

-----------------------------------------------------------------------------
(* AdvancedSchedulingOptimizer.create_cp_sat_model *)

\* the model before create_cp_sat_model has run
NoModel ==
    [ built |-> FALSE, num_vars |-> 0, at_most_one |-> {}, intervals |-> <<>>,
      sum_le |-> {}, fixed_false |-> {}, maximize |-> <<>> ]

\* Faulty variant: no AddAtMostOne constraint is added.
NoDemandGroups(fa) == {}

\* Constraint 1: one AddAtMostOne group per demand index with a candidate
DemandGroups(fa) ==
    { {i \in 1..Len(fa) : fa[i].demand_idx = d} : d \in {fa[i].demand_idx : i \in 1..Len(fa)} }

\* Faulty variant: the interval has no length.
IntervalWithoutLength(a) ==
    [ start |-> a.pass.rise_time \div 1000, size |-> 0,
      end |-> a.pass.rise_time \div 1000 ]

\* Constraint 2: the optional interval of candidate i; the start is
\* int(datetime.fromisoformat(rise_time).timestamp()), whole seconds
IntervalOf(a) ==
    LET start_time == a.pass.rise_time \div 1000
    IN  [ start |-> start_time, size |-> a.duration_seconds,
          end |-> start_time + a.duration_seconds ]

\* Faulty variant: maximum_contacts_per_satellite is parsed but adds nothing.
NoRowsForConstraint(fa, c) == {}

\* Faulty variant: minimum_gap forbids every pair of candidates of different
\* passes whose intervals lie less than gap_seconds apart.
RowsEnforcingMinimumGap(fa, c) ==
    IF c.constraint_type = "maximum_contacts_per_satellite"
    THEN { [ vars |-> {i \in 1..Len(fa) : fa[i].demand.satellite = sat},
             ub |-> c.value ]
           : sat \in {fa[i].demand.satellite : i \in 1..Len(fa)} }
    ELSE { [ vars |-> {i, j}, ub |-> 1 ] :
           <<i, j>> \in {q \in (1..Len(fa)) \X (1..Len(fa)) :
                            /\ IntervalOf(fa[q[1]]).end <= IntervalOf(fa[q[2]]).start
                            /\ IntervalOf(fa[q[2]]).start - IntervalOf(fa[q[1]]).end < c.value} }

\* Faulty variant: the cap is taken as a strict bound.
RowsWithStrictCap(fa, c) ==
    IF c.constraint_type = "maximum_contacts_per_satellite"
    THEN { [ vars |-> {i \in 1..Len(fa) : fa[i].demand.satellite = sat},
             ub |-> c.value - 1 ]
           : sat \in {fa[i].demand.satellite : i \in 1..Len(fa)} }
    ELSE {}

\* the linear constraints one custom constraint adds (_add_custom_constraints):
\* minimum_gap reads gap_seconds and adds none, priority_ordering passes
CustomConstraintRows(fa, c) ==
    IF c.constraint_type = "maximum_contacts_per_satellite"
    THEN { [ vars |-> {i \in 1..Len(fa) : fa[i].demand.satellite = sat},
             ub |-> c.value ]
           : sat \in {fa[i].demand.satellite : i \in 1..Len(fa)} }
    ELSE {}

add_custom_constraints(fa, cs) ==
    UNION {CustomConstraintRows(fa, cs[j]) : j \in 1..Len(cs)}

HasDeadline(a) == a.demand.deadline # NoDeadline

\* pass_time > deadline_dt compares an aware datetime (the pass) with the
\* deadline; Python raises TypeError when the deadline is naive
DeadlineCompareRaises(fa) ==
    \E i \in 1..Len(fa) : HasDeadline(fa[i]) /\ ~fa[i].demand.deadline_aware

PassAfterDeadline(a) == a.pass.rise_time > a.demand.deadline

\* Faulty variant: no variable is forced to 0.
NoDeadlinePruning(fa) == {}

\* _add_deadline_constraints: the variables forced to 0
add_deadline_constraints(fa) ==
    {i \in 1..Len(fa) : HasDeadline(fa[i]) /\ PassAfterDeadline(fa[i])}

\* Faulty variant: every objective counts contacts instead of data.
CoefficientCountsContacts(a, obj) == 1

\* Faulty variant: MINIMIZE_SCHEDULE_SPAN rewards the contacts that end
\* early instead of falling to the default branch.
CoefficientPrefersEarlyEnd(a, obj) ==
    CASE obj = "MAXIMIZE_DATA_THROUGHPUT" -> a.demand.data_mb
      [] obj = "MAXIMIZE_PRIORITY_WEIGHTED" -> (a.demand.data_mb * a.priority) \div 10
      [] obj = "BALANCE_EFFICIENCY_FAIRNESS" -> a.data_efficiency + a.demand.data_mb
      [] OTHER -> 0 - (a.pass.rise_time \div 1000 + a.duration_seconds)

\* Faulty variant: the priority weighs in under every objective.
CoefficientWeighsPriority(a, obj) == (a.demand.data_mb * a.priority) \div 10

\* _set_optimization_objective: the coefficient of candidate i; the priority
\* is in tenths, so int(data_mb * priority) is the quotient by 10
ObjectiveCoefficient(a, obj) ==
    CASE obj = "MAXIMIZE_DATA_THROUGHPUT" -> a.demand.data_mb
      [] obj = "MAXIMIZE_PRIORITY_WEIGHTED" -> (a.demand.data_mb * a.priority) \div 10
      [] obj = "BALANCE_EFFICIENCY_FAIRNESS" -> a.data_efficiency + a.demand.data_mb
      [] OTHER -> a.demand.data_mb

create_cp_sat_model(fa, obj, cs) ==
    [ built |-> TRUE,
      num_vars |-> Len(fa),
      at_most_one |-> DemandGroups(fa),
      intervals |-> [i \in 1..Len(fa) |-> IntervalOf(fa[i])],
      sum_le |-> IF cs # <<>> THEN add_custom_constraints(fa, cs) ELSE {},
      fixed_false |-> add_deadline_constraints(fa),
      maximize |-> [i \in 1..Len(fa) |-> ObjectiveCoefficient(fa[i], obj)] ]

-----------------------------------------------------------------------------
(* The CP-SAT solver: what cp_model.CpSolver().Solve(model) can answer *)

IntervalsDisjoint(a, b) == a.end <= b.start \/ b.end <= a.start

\* S, the set of variables set to true, satisfies every constraint of m
Satisfies(m, S) ==
    /\ \A g \in m.at_most_one : Cardinality(S \cap g) <= 1
    /\ \A i \in S : \A j \in S :
          i # j => IntervalsDisjoint(m.intervals[i], m.intervals[j])
    /\ \A row \in m.sum_le : Cardinality(S \cap row.vars) <= row.ub
    /\ S \cap m.fixed_false = {}

ObjectiveValue(m, S) == SumOver(m.maximize, S)

Solutions(m) == {S \in SUBSET (1..m.num_vars) : Satisfies(m, S)}

\* Faulty variant: every solution passes for a best one.
AnySolutionPassesForOptimal(m) == Solutions(m)

OptimalSolutions(m) ==
    {S \in Solutions(m) : \A T \in Solutions(m) : ObjectiveValue(m, T) <= ObjectiveValue(m, S)}

\* the (status, selection) pairs Solve may end with: OPTIMAL with a best
\* solution, FEASIBLE with any solution when max_time_in_seconds runs out,
\* UNKNOWN when it runs out before any solution, INFEASIBLE when none exists
SolveOutcomes(m) ==
    {[status |-> "OPTIMAL", selected |-> S] : S \in OptimalSolutions(m)}
    \cup {[status |-> "FEASIBLE", selected |-> S] : S \in Solutions(m)}
    \cup {[status |-> "UNKNOWN", selected |-> {}]}
    \cup (IF Solutions(m) = {} THEN {[status |-> "INFEASIBLE", selected |-> {}]} ELSE {})

-----------------------------------------------------------------------------
(* AdvancedSchedulingOptimizer.solve_optimization_model: the extraction *)

\* The sort keys are the ISO texts, compared as strings.  In the text of a
\* time written by isoformat() + 'Z' the fraction of the second is present
\* only when it is not zero, and '.' sorts before 'Z': within one second the
\* times with a fraction come first, in their order, and the whole second
\* comes last.  The place of the text of time t (ms) in that order:
IsoTextKey(t) ==
    (t \div 1000) * 1000 + (IF t % 1000 = 0 THEN 999 ELSE (t % 1000) - 1)

\* Faulty variant: the contacts stay in the order of extraction.
KeepExtractionOrder(xs) == xs

\* sorted(xs, key=lambda x: x['start_time']): stable, ascending in the text
RECURSIVE InsertByStart(_, _)
InsertByStart(x, sorted) ==
    IF sorted = <<>> THEN <<x>>
    ELSE IF IsoTextKey(Head(sorted).start_time) <= IsoTextKey(x.start_time)
         THEN <<Head(sorted)>> \o InsertByStart(x, Tail(sorted))
         ELSE <<x>> \o sorted

RECURSIVE SortByStart(_)
SortByStart(xs) ==
    IF xs = <<>> THEN <<>>
    ELSE InsertByStart(xs[Len(xs)], SortByStart(SubSeq(xs, 1, Len(xs) - 1)))

\* the contact built for a selected assignment; end_time is
\* start_dt + timedelta(seconds=duration_seconds), written by
\* end_dt.isoformat() + "Z": the rise times carry the UTC designator, so
\* isoformat() writes the offset and the text ends in "+00:00Z"
ContactOf(a) ==
    [ satellite |-> a.demand.satellite,
      demand_mb |-> a.demand.data_mb,
      start_time |-> a.pass.rise_time,
      end_time |-> a.pass.rise_time + a.duration_seconds * 1000,
      end_time_designator |-> "+00:00Z",
      duration_seconds |-> a.duration_seconds,
      data_efficiency |-> a.data_efficiency,
      priority |-> a.priority ]

\* the selection the extraction loop reads: none unless OPTIMAL or FEASIBLE
ExtractedSelection(st, sel) ==
    IF st \in {"OPTIMAL", "FEASIBLE"} THEN sel ELSE {}

ScheduledContactsOf(fa, sel) ==
    SelectPositions([i \in 1..Len(fa) |-> ContactOf(fa[i])], sel, 1)

scheduled_demand_indices(fa, sel) == {fa[i].demand_idx : i \in sel}

TotalDataScheduled(fa, sel) ==
    SumOver([i \in 1..Len(fa) |-> fa[i].demand.data_mb], sel)

\* the orders list(set(...)) can give to the distinct demand values of the
\* feasible assignments
AllDemandsOrders(fa) ==
    LET distinct == {fa[i].demand : i \in 1..Len(fa)}
        n == Cardinality(distinct)
    IN  {f \in [1..n -> distinct] : \A i \in 1..n : \A j \in 1..n : f[i] = f[j] => i = j}

\* [demand for i, demand in enumerate(all_demands) if i not in scheduled_demand_indices]
UnscheduledDemandsOf(all_demands, indices) ==
    SelectPositions(all_demands, (1..Len(all_demands)) \ indices, 1)

SolutionQuality(st) ==
    CASE st = "OPTIMAL" -> "OPTIMAL"
      [] st = "FEASIBLE" -> "FEASIBLE"
      [] OTHER -> "INFEASIBLE"

\* a quotient a / b kept exact; the code writes 0 when b is not positive
Ratio(a, b) == IF b > 0 THEN [num |-> a, den |-> b] ELSE [num |-> 0, den |-> 1]

NoResult ==
    [ scheduled_contacts |-> <<>>, unscheduled_demands |-> <<>>,
      optimization_status |-> "", objective_value |-> 0,
      total_data_scheduled |-> 0, schedule_efficiency |-> Ratio(0, 0),
      resource_utilization |-> Ratio(0, 0), solution_quality |-> "" ]

\* the OptimizationResult of solve_optimization_model when all_demands came
\* out in the given order
SolvedResult(m, fa, st, sel, all_demands) ==
    LET chosen == ExtractedSelection(st, sel)
        contacts == ScheduledContactsOf(fa, chosen)
        total == TotalDataScheduled(fa, chosen)
        total_possible == SumSeq([i \in 1..Len(all_demands) |-> all_demands[i].data_mb])
    IN  [ scheduled_contacts |-> SortByStart(contacts),
          unscheduled_demands |->
              UnscheduledDemandsOf(all_demands, scheduled_demand_indices(fa, chosen)),
          optimization_status |-> st,
          objective_value |-> IF st \in {"OPTIMAL", "FEASIBLE"}
                              THEN ObjectiveValue(m, sel) ELSE 0,
          total_data_scheduled |-> total,
          schedule_efficiency |-> Ratio(total, total_possible),
          resource_utilization |-> Ratio(Len(contacts), Len(fa)),
          solution_quality |-> SolutionQuality(st) ]

\* the result returned when there is no feasible assignment
NoFeasibleResult(ds) ==
    [ scheduled_contacts |-> <<>>, unscheduled_demands |-> ds,
      optimization_status |-> "NO_FEASIBLE_ASSIGNMENTS", objective_value |-> 0,
      total_data_scheduled |-> 0, schedule_efficiency |-> Ratio(0, 0),
      resource_utilization |-> Ratio(0, 0), solution_quality |-> "INFEASIBLE" ]

-----------------------------------------------------------------------------
(* create_baseline_schedule (baseline.py) *)

\* station_busy_until = datetime.min: before every pass
DatetimeMin == -1

\* sorted(all_passes, key=lambda p: p['rise_time']): stable, ascending in the
\* text of rise_time
RECURSIVE InsertByRise(_, _)
InsertByRise(x, sorted) ==
    IF sorted = <<>> THEN <<x>>
    ELSE IF IsoTextKey(Head(sorted).rise_time) <= IsoTextKey(x.rise_time)
         THEN <<Head(sorted)>> \o InsertByRise(x, Tail(sorted))
         ELSE <<x>> \o sorted

RECURSIVE SortByRise(_)
SortByRise(xs) ==
    IF xs = <<>> THEN <<>>
    ELSE InsertByRise(xs[Len(xs)], SortByRise(SubSeq(xs, 1, Len(xs) - 1)))

BaselineEstimation(p, demand) ==
    estimate_transfer_time_detailed(p, demand.data_mb, default_data_rate_mbps, "clear")

\* positions of remaining_demands the pass can serve
FeasiblePositions(p, remaining) ==
    {i \in 1..Len(remaining) : EstimationFeasible(BaselineEstimation(p, remaining[i]))}

\* Faulty variant: every element equal to the demand is dropped.
RemoveEveryEqual(s, x) == SelectPositions(s, {k \in 1..Len(s) : s[k] # x}, 1)

\* remaining_demands.remove(demand): drops the first element equal to it
RemoveFirst(s, x) ==
    LET i == CHOOSE k \in 1..Len(s) : s[k] = x /\ \A j \in 1..(k - 1) : s[j] # x
    IN  SubSeq(s, 1, i - 1) \o SubSeq(s, i + 1, Len(s))

\* the contact of the baseline; times in microseconds, end_time is
\* pass_rise_time + timedelta(seconds=total_required_time_seconds)
BaselineContact(p, demand) ==
    LET estimation == BaselineEstimation(p, demand)
    IN  [ satellite |-> demand.satellite,
          demand_mb |-> demand.data_mb,
          start_time_us |-> p.rise_time * 1000,
          end_time_us |-> p.rise_time * 1000 + estimation.total_required_time_cs * 10000,
          duration_cs |-> estimation.total_required_time_cs,
          data_efficiency |-> estimation.data_efficiency ]

\* Faulty variant: remaining_demands is data_demands itself, so remove()
\* takes the demand from the caller's list.
AliasedDataDemands(data_demands, remaining_demands) == remaining_demands

\* remaining_demands = list(data_demands) is a copy: data_demands, the
\* caller's list, keeps what remove() takes from remaining_demands
CallerDataDemands(data_demands, remaining_demands) == data_demands

BaselineStart(ds) ==
    [ remaining_demands |-> ds, scheduled_contacts |-> <<>>,
      station_busy_until |-> DatetimeMin ]

\* Faulty variant: the test that the station is free is left out.
IterationIgnoringBusyStation(st, p) ==
    IF st.remaining_demands = <<>> THEN st
    ELSE IF FeasiblePositions(p, st.remaining_demands) # {}
    THEN LET first == CHOOSE i \in FeasiblePositions(p, st.remaining_demands) :
                          \A j \in FeasiblePositions(p, st.remaining_demands) : i <= j
             demand == st.remaining_demands[first]
             contact == BaselineContact(p, demand)
         IN  [ remaining_demands |-> RemoveFirst(st.remaining_demands, demand),
               scheduled_contacts |-> Append(st.scheduled_contacts, contact),
               station_busy_until |-> contact.end_time_us ]
    ELSE st

\* one iteration of the loop over sorted_passes; once remaining_demands is
\* empty the loop breaks, which leaves the state as it is
BaselineIteration(st, p) ==
    IF st.remaining_demands = <<>> THEN st
    ELSE IF p.rise_time * 1000 >= st.station_busy_until
              /\ FeasiblePositions(p, st.remaining_demands) # {}
    THEN LET first == CHOOSE i \in FeasiblePositions(p, st.remaining_demands) :
                          \A j \in FeasiblePositions(p, st.remaining_demands) : i <= j
             demand == st.remaining_demands[first]
             contact == BaselineContact(p, demand)
         IN  [ remaining_demands |-> RemoveFirst(st.remaining_demands, demand),
               scheduled_contacts |-> Append(st.scheduled_contacts, contact),
               station_busy_until |-> contact.end_time_us ]
    ELSE st

RECURSIVE BaselineLoop(_, _)
BaselineLoop(st, ps) ==
    IF ps = <<>> THEN st
    ELSE BaselineLoop(BaselineIteration(st, Head(ps)), Tail(ps))

create_baseline_schedule(all_passes, data_demands) ==
    BaselineLoop(BaselineStart(data_demands), SortByRise(all_passes))

BaselineData(all_passes, data_demands) ==
    LET cs == create_baseline_schedule(all_passes, data_demands).scheduled_contacts
    IN  SumSeq([i \in 1..Len(cs) |-> cs[i].demand_mb])

-----------------------------------------------------------------------------
(* create_advanced_schedule, step by step *)

\* self.solver_timeout_seconds = 300 in __init__
default_solver_timeout_seconds == 300

\* solver_timeout = None; `if solver_timeout:` takes 0 the same way
NoTimeout == 0

\* if solver_timeout: self.solver_timeout_seconds = solver_timeout
TimeoutAfterCall(field, arg) == IF arg # NoTimeout THEN arg ELSE field

\* no call of estimate_transfer_time_detailed has been made on its own
NotCalled == [called |-> FALSE]

\* the locals of a call that has not reached the solver
NoSolve == [max_time_in_seconds |-> 0, status |-> "", selected |-> {}]

\* a fresh AdvancedSchedulingOptimizer, nothing called
Init ==
    /\ pc = "idle"
    /\ passes = <<>>
    /\ demands = <<>>
    /\ objective = "MAXIMIZE_DATA_THROUGHPUT"
    /\ constraints = <<>>
    /\ solver_timeout = NoTimeout
    /\ feasible_assignments = <<>>
    /\ model = NoModel
    /\ max_time_in_seconds = NoSolve.max_time_in_seconds
    /\ status = NoSolve.status
    /\ selected = NoSolve.selected
    /\ result = NoResult
    /\ exception = ""
    /\ solver_timeout_seconds = default_solver_timeout_seconds
    /\ latency_call = NotCalled
    /\ latency_result = NotCalled
    /\ sorted_passes = <<>>
    /\ baseline = BaselineStart(<<>>)

\* the call with its arguments (no solver_timeout), up to the end of
\* preprocess_scheduling_data
Preprocess ==
    /\ pc = "idle"
    /\ \E ps \in SeqsUpTo(PassPool, MaxPasses) :
       \E ds \in SeqsUpTo(DemandPool, MaxDemands) :
          /\ passes' = ps
          /\ demands' = ds
          /\ feasible_assignments' = preprocess_scheduling_data(ps, ds)
    /\ objective' \in Objectives
    /\ constraints' \in ConstraintLists
    /\ solver_timeout' = NoTimeout
    /\ solver_timeout_seconds' = TimeoutAfterCall(solver_timeout_seconds, solver_timeout')
    /\ pc' = "preprocessed"
    /\ UNCHANGED <<model, max_time_in_seconds, status, selected, result, exception>>
    /\ UNCHANGED <<latency_vars, baseline_vars>>

\* if not feasible_assignments: return without building a model
ReturnNoFeasible ==
    /\ pc = "preprocessed"
    /\ feasible_assignments = <<>>
    /\ result' = NoFeasibleResult(demands)
    /\ pc' = "returned"
    /\ UNCHANGED <<passes, demands, objective, constraints, solver_timeout,
                   feasible_assignments, model, max_time_in_seconds, status, selected,
                   exception>>
    /\ UNCHANGED <<solver_timeout_seconds, latency_vars, baseline_vars>>

\* create_cp_sat_model; the deadline comparison may raise
CreateModel ==
    /\ pc = "preprocessed"
    /\ feasible_assignments # <<>>
    /\ IF DeadlineCompareRaises(feasible_assignments)
       THEN /\ exception' = "TypeError: can't compare offset-naive and offset-aware datetimes"
            /\ pc' = "raised"
            /\ UNCHANGED model
       ELSE /\ model' = create_cp_sat_model(feasible_assignments, objective, constraints)
            /\ pc' = "modelled"
            /\ UNCHANGED exception
    /\ UNCHANGED <<passes, demands, objective, constraints, solver_timeout,
                   feasible_assignments, max_time_in_seconds, status, selected, result>>
    /\ UNCHANGED <<solver_timeout_seconds, latency_vars, baseline_vars>>

\* solve_optimization_model: Solve under the time budget of the instance,
\* the extraction loop, then list(set(a['demand'] ...)) in one of the orders
\* a set can have, and the result.  status and selected keep what the solver
\* answered.
SolveOptimizationModel ==
    /\ pc = "modelled"
    /\ max_time_in_seconds' = solver_timeout_seconds
    /\ \E o \in SolveOutcomes(model) :
       \E all_demands \in AllDemandsOrders(feasible_assignments) :
          /\ status' = o.status
          /\ selected' = o.selected
          /\ result' = SolvedResult(model, feasible_assignments, o.status, o.selected,
                                    all_demands)
    /\ pc' = "returned"
    /\ UNCHANGED <<passes, demands, objective, constraints, solver_timeout,
                   feasible_assignments, model, exception>>
    /\ UNCHANGED <<solver_timeout_seconds, latency_vars, baseline_vars>>

\* the same method when the demands are plain dicts: the solver runs and
\* answers, then set() raises TypeError (unhashable type: 'dict'); status
\* keeps the answer, the selection goes with the frame
SolveOptimizationModelRaises ==
    /\ pc = "modelled"
    /\ max_time_in_seconds' = solver_timeout_seconds
    /\ \E o \in SolveOutcomes(model) : status' = o.status
    /\ exception' = "TypeError: unhashable type: 'dict'"
    /\ pc' = "raised"
    /\ UNCHANGED <<passes, demands, objective, constraints, solver_timeout,
                   feasible_assignments, model, selected, result>>
    /\ UNCHANGED <<solver_timeout_seconds, latency_vars, baseline_vars>>

Next ==
    \/ Preprocess
    \/ ReturnNoFeasible
    \/ CreateModel
    \/ SolveOptimizationModel
    \/ SolveOptimizationModelRaises

Spec == Init /\ [][Next]_vars

-----------------------------------------------------------------------------
(* LatencyEstimator.estimate_transfer_time_detailed called on its own *)

\* passes of 5 s, 360 s and 600 s, and passes whose rise_time or set_time is
\* absent or is no ISO time
LatencyPassPool ==
    { [rise_time |-> 2100, set_time |-> 7100],
      [rise_time |-> 0, set_time |-> 360000],
      [rise_time |-> 0, set_time |-> 600000],
      [rise_time |-> Missing, set_time |-> 600000],
      [rise_time |-> 0, set_time |-> Missing],
      [rise_time |-> Unparseable, set_time |-> 600000],
      [rise_time |-> 0, set_time |-> Unparseable] }

LatencyDataPool == {0, 150, 500, 1200}

\* base_data_rate_mbps = None
NoRate == 0

LatencyRatePool == {NoRate, 150, 300}

\* "fog" is not a key of weather_degradation
LatencyWeatherPool == {"clear", "light_clouds", "fog"}

\* if base_data_rate_mbps is None: base_data_rate_mbps = self.default_data_rate_mbps
BaseRateOrDefault(r) == IF r = NoRate THEN default_data_rate_mbps ELSE r

\* one call of estimate_transfer_time_detailed(pass_info, data_demand_mb,
\* base_data_rate_mbps, weather_condition), altitude left at 408 km
EstimateTransferTimeDetailed ==
    /\ pc = "idle"
    /\ \E p \in LatencyPassPool : \E mb \in LatencyDataPool :
       \E r \in LatencyRatePool : \E w \in LatencyWeatherPool :
          /\ latency_call' = [ called |-> TRUE, pass_info |-> p, data_demand_mb |-> mb,
                               base_data_rate_mbps |-> r, weather_condition |-> w ]
          /\ latency_result' =
                estimate_transfer_time_detailed(p, mb, BaseRateOrDefault(r), w)
    /\ pc' = "estimated"
    /\ UNCHANGED <<passes, demands, objective, constraints, solver_timeout,
                   feasible_assignments, model, max_time_in_seconds, status, selected,
                   result, exception>>
    /\ UNCHANGED <<solver_timeout_seconds, baseline_vars>>

NextLatency == EstimateTransferTimeDetailed

SpecLatency == Init /\ [][NextLatency]_vars

-----------------------------------------------------------------------------
(* One AdvancedSchedulingOptimizer instance called again and again *)

\* a pass of 300 s, a later pass of 1200 s, a pass without rise_time and a
\* pass whose set_time is no ISO time
ScenarioPassPool ==
    { [rise_time |-> 0, set_time |-> 300000],
      [rise_time |-> 1000000, set_time |-> 2200000],
      [rise_time |-> Missing, set_time |-> 300000],
      [rise_time |-> 0, set_time |-> Unparseable] }

ScenarioDemandPool ==
    { [satellite |-> "S1", data_mb |-> 150, priority |-> 10,
       deadline |-> NoDeadline, deadline_aware |-> FALSE],
      [satellite |-> "S2", data_mb |-> 1200, priority |-> 10,
       deadline |-> NoDeadline, deadline_aware |-> FALSE] }

\* the solver_timeout arguments: not given, or one second
ScenarioTimeouts == {NoTimeout, 1}

\* create_advanced_schedule(passes, demands, objective, None, solver_timeout)
\* on the instance as earlier calls left it, up to the end of
\* preprocess_scheduling_data; the locals are those of a new frame
CallOnInstance ==
    /\ pc = "idle"
    /\ \E ps \in SeqsUpTo(ScenarioPassPool, MaxPasses) :
       \E ds \in SeqsUpTo(ScenarioDemandPool, MaxDemands) :
          /\ passes' = ps
          /\ demands' = ds
          /\ feasible_assignments' = preprocess_scheduling_data(ps, ds)
    /\ objective' \in Objectives
    /\ constraints' = <<>>
    /\ solver_timeout' \in ScenarioTimeouts
    /\ solver_timeout_seconds' = TimeoutAfterCall(solver_timeout_seconds, solver_timeout')
    /\ pc' = "preprocessed"
    /\ UNCHANGED <<model, max_time_in_seconds, status, selected, result, exception>>
    /\ UNCHANGED <<latency_vars, baseline_vars>>

\* the call is over (it returned or raised): its frame goes, the instance
\* keeps its fields and is ready for the next call
LeaveCall ==
    /\ pc \in {"returned", "raised"}
    /\ pc' = "idle"
    /\ passes' = <<>>
    /\ demands' = <<>>
    /\ objective' = "MAXIMIZE_DATA_THROUGHPUT"
    /\ constraints' = <<>>
    /\ solver_timeout' = NoTimeout
    /\ feasible_assignments' = <<>>
    /\ model' = NoModel
    /\ max_time_in_seconds' = NoSolve.max_time_in_seconds
    /\ status' = NoSolve.status
    /\ selected' = NoSolve.selected
    /\ result' = NoResult
    /\ exception' = ""
    /\ UNCHANGED <<solver_timeout_seconds, latency_vars, baseline_vars>>

NextInstance ==
    \/ EstimateTransferTimeDetailed
    \/ CallOnInstance
    \/ ReturnNoFeasible
    \/ CreateModel
    \/ SolveOptimizationModel
    \/ SolveOptimizationModelRaises
    \/ LeaveCall

SpecInstance == Init /\ [][NextInstance]_vars

-----------------------------------------------------------------------------
(* create_baseline_schedule, pass by pass *)

\* the passes of PassPool, a pass rising on a whole second, a pass whose
\* rise_time is no ISO time, a pass without set_time and a pass without
\* rise_time
BaselinePassPool ==
    PassPool \cup
    { [rise_time |-> 2000, set_time |-> 7000],
      [rise_time |-> Unparseable, set_time |-> 7100],
      [rise_time |-> 900, set_time |-> Missing],
      [rise_time |-> Missing, set_time |-> 7100] }

BaselineDemandPool == {d \in DemandPool : d.deadline = NoDeadline}

\* create_baseline_schedule(all_passes, data_demands) up to the loop: the
\* sort reads p['rise_time'] of every pass and raises KeyError when one has
\* none
BaselineCall ==
    /\ pc = "idle"
    /\ \E ps \in SeqsUpTo(BaselinePassPool, MaxPasses) :
       \E ds \in SeqsUpTo(BaselineDemandPool, MaxDemands) :
          /\ passes' = ps
          /\ demands' = ds
          /\ IF \E i \in 1..Len(ps) : ps[i].rise_time = Missing
             THEN /\ exception' = "KeyError: 'rise_time'"
                  /\ pc' = "raised"
                  /\ UNCHANGED baseline_vars
             ELSE /\ sorted_passes' = SortByRise(ps)
                  /\ baseline' = BaselineStart(ds)
                  /\ pc' = "baseline_loop"
                  /\ UNCHANGED exception
    /\ UNCHANGED <<objective, constraints, solver_timeout, feasible_assignments, model,
                   max_time_in_seconds, status, selected, result>>
    /\ UNCHANGED <<solver_timeout_seconds, latency_vars>>

\* one iteration of `for p in sorted_passes`; fromisoformat(p['rise_time'])
\* raises ValueError outside any try
BaselineVisitPass ==
    /\ pc = "baseline_loop"
    /\ sorted_passes # <<>>
    /\ baseline.remaining_demands # <<>>
    /\ IF ~TimeParses(Head(sorted_passes).rise_time)
       THEN /\ exception' = "ValueError: Invalid isoformat string"
            /\ pc' = "raised"
            /\ UNCHANGED baseline_vars
            /\ UNCHANGED demands
       ELSE /\ baseline' = BaselineIteration(baseline, Head(sorted_passes))
            /\ sorted_passes' = Tail(sorted_passes)
            /\ demands' = CallerDataDemands(demands, baseline'.remaining_demands)
            /\ UNCHANGED <<pc, exception>>
    /\ UNCHANGED <<passes, objective, constraints, solver_timeout,
                   feasible_assignments, model, max_time_in_seconds, status, selected,
                   result>>
    /\ UNCHANGED <<solver_timeout_seconds, latency_vars>>

\* the loop is over (no pass left, or the break on no demand left):
\* return scheduled_contacts, remaining_demands
BaselineReturn ==
    /\ pc = "baseline_loop"
    /\ sorted_passes = <<>> \/ baseline.remaining_demands = <<>>
    /\ pc' = "baseline_returned"
    /\ UNCHANGED <<passes, demands, objective, constraints, solver_timeout,
                   feasible_assignments, model, max_time_in_seconds, status, selected,
                   result, exception>>
    /\ UNCHANGED <<solver_timeout_seconds, latency_vars, baseline_vars>>

NextBaseline ==
    \/ BaselineCall
    \/ BaselineVisitPass
    \/ BaselineReturn

SpecBaseline == Init /\ [][NextBaseline]_vars

-----------------------------------------------------------------------------
(* create_advanced_schedule with custom constraints and every objective *)

\* a pass of 119.998 s and a later pass of 30 s
ConstraintPassPool ==
    { [rise_time |-> 0,      set_time |-> 119998],
      [rise_time |-> 200000, set_time |-> 230000] }

\* 865 MB needs 119.9955 s and 500 MB fits the long pass only; 5 MB at
\* priority 1.5 weighs 7.5; its deadline lies before the second pass
ConstraintDemandPool ==
    { [satellite |-> "S1", data_mb |-> 7, priority |-> 10,
       deadline |-> NoDeadline, deadline_aware |-> FALSE],
      [satellite |-> "S1", data_mb |-> 865, priority |-> 10,
       deadline |-> NoDeadline, deadline_aware |-> FALSE],
      [satellite |-> "S2", data_mb |-> 500, priority |-> 25,
       deadline |-> NoDeadline, deadline_aware |-> FALSE],
      [satellite |-> "S2", data_mb |-> 5, priority |-> 15,
       deadline |-> 5000, deadline_aware |-> TRUE] }

\* members of OptimizationObjective
ConstraintObjectives ==
    { "MAXIMIZE_DATA_THROUGHPUT", "MINIMIZE_SCHEDULE_SPAN",
      "MAXIMIZE_PRIORITY_WEIGHTED" }

\* lists of SchedulingConstraint: gap_seconds 300, max_contacts 1, 0 and -1
CustomConstraintLists ==
    { <<>>, <<MinimumGap(300)>>, <<MinimumGap(300), MaxContacts(1)>>,
      <<MaxContacts(0)>>, <<MaxContacts(-1)>> }

\* create_advanced_schedule(passes, demands, objective, constraints) up to the
\* end of preprocess_scheduling_data
CallWithConstraints ==
    /\ pc = "idle"
    /\ \E ps \in SeqsUpTo(ConstraintPassPool, MaxPasses) :
       \E ds \in SeqsUpTo(ConstraintDemandPool, MaxDemands) :
          /\ passes' = ps
          /\ demands' = ds
          /\ feasible_assignments' = preprocess_scheduling_data(ps, ds)
    /\ objective' \in ConstraintObjectives
    /\ constraints' \in CustomConstraintLists
    /\ solver_timeout' = NoTimeout
    /\ solver_timeout_seconds' = TimeoutAfterCall(solver_timeout_seconds, solver_timeout')
    /\ pc' = "preprocessed"
    /\ UNCHANGED <<model, max_time_in_seconds, status, selected, result, exception>>
    /\ UNCHANGED <<latency_vars, baseline_vars>>

NextConstraints ==
    \/ CallWithConstraints
    \/ ReturnNoFeasible
    \/ CreateModel
    \/ SolveOptimizationModel
    \/ SolveOptimizationModelRaises

SpecConstraints == Init /\ [][NextConstraints]_vars

-----------------------------------------------------------------------------
(* A caller of either scheduler *)

NextCallers ==
    \/ NextConstraints
    \/ NextBaseline

SpecCallers == Init /\ [][NextCallers]_vars

-----------------------------------------------------------------------------
(* Vocabulary of the properties *)

Returned == pc = "returned"
Raised == pc = "raised"

\* the candidates whose contacts are in the result
Chosen == ExtractedSelection(status, selected)

\* how many scheduled contacts serve the demand at input position d
ScheduledCount(d) ==
    Cardinality({i \in Chosen : feasible_assignments[i].demand_idx = d})

Occurrences(s, v) == Cardinality({k \in 1..Len(s) : s[k] = v})

InputDataTotal == SumSeq([d \in 1..Len(demands) |-> demands[d].data_mb])

PairFeasible(p, d) ==
    EstimationFeasible(
        estimate_transfer_time_detailed(p, d.data_mb, default_data_rate_mbps, "clear"))

NoFeasiblePair ==
    \A i \in 1..Len(passes) : \A d \in 1..Len(demands) : ~PairFeasible(passes[i], demands[d])

ContactsIntersect(a, b) ==
    /\ a.start_time < b.start_time + b.duration_seconds * 1000
    /\ b.start_time < a.start_time + a.duration_seconds * 1000

-----------------------------------------------------------------------------
(* Properties *)

\* C1: in every returned result each input demand, taken by input position,
\* is in exactly one of scheduled_contacts and unscheduled_demands: no
\* position has two contacts, and unscheduled_demands holds, value for value,
\* exactly the demands of the positions without a contact.
C1_PartitionOfDemands ==
    Returned =>
        /\ \A d \in 1..Len(demands) : ScheduledCount(d) <= 1
        /\ \A v \in Range(demands) \cup Range(result.unscheduled_demands) :
              Occurrences(result.unscheduled_demands, v)
                = Cardinality({d \in 1..Len(demands) :
                                 demands[d] = v /\ ScheduledCount(d) = 0})

\* C2: in every returned result no two scheduled contacts have intersecting
\* intervals [start_time, start_time + duration_seconds).
C2_NoTwoContactsIntersect ==
    Returned =>
        \A i \in 1..Len(result.scheduled_contacts) :
        \A j \in 1..Len(result.scheduled_contacts) :
            i # j => ~ContactsIntersect(result.scheduled_contacts[i],
                                        result.scheduled_contacts[j])

NoDeadlineBeforeAPass ==
    \A d \in 1..Len(demands) : \A i \in 1..Len(passes) :
        demands[d].deadline # NoDeadline => passes[i].rise_time <= demands[d].deadline

C4_NoContactAfterDeadline ==
    Returned =>
        \A i \in Chosen :
            feasible_assignments[i].demand.deadline # NoDeadline
                => feasible_assignments[i].pass.rise_time
                     <= feasible_assignments[i].demand.deadline

\* C4 witness: a result that schedules a demand with a deadline in a pass
\* rising before the deadline, while the candidate of the same demand in a
\* pass rising after the deadline was forced to 0.
C4_Witness ==
    /\ Returned
    /\ \E i \in Chosen : \E j \in model.fixed_false :
          /\ feasible_assignments[i].demand.deadline # NoDeadline
          /\ feasible_assignments[j].demand_idx = feasible_assignments[i].demand_idx
          /\ PassAfterDeadline(feasible_assignments[j])
    /\ Len(result.scheduled_contacts) = Cardinality(Chosen)

HasMaxContacts(n) ==
    \E j \in 1..Len(constraints) : constraints[j] = MaxContacts(n)

ContactsOfSatellite(sat) ==
    Cardinality({k \in 1..Len(result.scheduled_contacts) :
                    result.scheduled_contacts[k].satellite = sat})

\* C5: with a maximum_contacts_per_satellite constraint of N no satellite
\* label is on more than N contacts of the returned result.
C5_PerSatelliteCap ==
    Returned =>
        \A j \in 1..Len(constraints) :
            constraints[j].constraint_type = "maximum_contacts_per_satellite"
                => \A sat \in {demands[d].satellite : d \in 1..Len(demands)} :
                       ContactsOfSatellite(sat) <= constraints[j].value

\* C5 witness: a cap of 1, two demands of one satellite that both have a
\* feasible pass free of the other, and an OPTIMAL result with one contact.
C5_Witness ==
    /\ Returned
    /\ HasMaxContacts(1)
    /\ status = "OPTIMAL"
    /\ Len(demands) >= 2
    /\ \A d \in 1..Len(demands) : demands[d].satellite = "S1"
    /\ \E S \in SUBSET (1..Len(feasible_assignments)) :
          Cardinality(S) = 2 /\ Satisfies([model EXCEPT !.sum_le = {}], S)
    /\ Len(result.scheduled_contacts) = 1

\* C6: in every returned result each input position is the demand of at most
\* one scheduled contact (the contacts are those of the chosen candidates).
C6_AtMostOneContactPerDemand ==
    Returned =>
        /\ Len(result.scheduled_contacts) = Cardinality(Chosen)
        /\ \A d \in 1..Len(demands) : ScheduledCount(d) <= 1

\* C6 witness: a demand with two feasible passes is scheduled, once.
C6_Witness ==
    /\ Returned
    /\ \E d \in 1..Len(demands) :
          /\ Cardinality({i \in 1..Len(feasible_assignments) :
                             feasible_assignments[i].demand_idx = d}) >= 2
          /\ ScheduledCount(d) = 1

\* C7: unscheduled_demands of a returned result is exactly the list of the
\* input demands whose input position was not selected, in input order.
C7_UnscheduledByInputIndex ==
    Returned =>
        result.unscheduled_demands
            = SelectPositions(demands,
                              {d \in 1..Len(demands) : ScheduledCount(d) = 0}, 1)

\* C8: schedule_efficiency of a returned result is total_data_scheduled over
\* the sum of the sizes of all input demands (0 when that sum is 0), and it
\* lies in [0, 1].
C8_EfficiencyOverAllDemands ==
    Returned =>
        LET e == result.schedule_efficiency
        IN  /\ e.den > 0
            /\ 0 <= e.num
            /\ e.num <= e.den
            /\ IF InputDataTotal = 0
               THEN e.num = 0
               ELSE e.num * InputDataTotal = result.total_data_scheduled * e.den

\* C9: create_advanced_schedule never raises.
C9_NeverRaises == exception = "" /\ ~Raised

DeclaredStatuses == {"OPTIMAL", "FEASIBLE", "INFEASIBLE", "NO_FEASIBLE_ASSIGNMENTS"}

\* C11: optimization_status of every returned result is one of OPTIMAL,
\* FEASIBLE, INFEASIBLE, NO_FEASIBLE_ASSIGNMENTS, whatever the solver
\* answered, also when the time budget ended before any selection was found.
C11_StatusInDeclaredSet ==
    Returned => result.optimization_status \in DeclaredStatuses

\* the solver stopped at max_time_in_seconds: with a selection (FEASIBLE) or
\* without one (UNKNOWN)
BudgetRanOut == status \in {"FEASIBLE", "UNKNOWN"}

\* C12: when the time budget runs out the call returns a result and does not
\* raise, and when a selection had been found the result has status FEASIBLE
\* and its schedule is that selection.
C12_TimeoutReturnsBestFound ==
    BudgetRanOut =>
        /\ Returned
        /\ exception = ""
        /\ status = "FEASIBLE" =>
              /\ result.optimization_status = "FEASIBLE"
              /\ result.scheduled_contacts
                   = SortByStart(ScheduledContactsOf(feasible_assignments, selected))

\* the input demand at position d has a deadline earlier than the rise time
\* of every input pass
DeadlineBeforeEveryPass(d) ==
    /\ demands[d].deadline # NoDeadline
    /\ \A i \in 1..Len(passes) : demands[d].deadline < passes[i].rise_time

\* C17: under each objective a demand whose deadline is earlier than the rise
\* time of every input pass has no contact in a returned result and is listed
\* in its unscheduled_demands, whatever the other demands are.
C17_LateDemandListedUnscheduled ==
    Returned =>
        \A d \in 1..Len(demands) :
            DeadlineBeforeEveryPass(d) =>
                /\ ScheduledCount(d) = 0
                /\ demands[d] \in Range(result.unscheduled_demands)

\* the estimator was called on a pass of the given duration (ms) with the
\* given size, base rate 150 Mbps (given or by default) and weather clear
EstimatedAtDefaults(duration_ms, data_mb) ==
    /\ pc = "estimated"
    /\ TimeParses(latency_call.pass_info.rise_time)
    /\ TimeParses(latency_call.pass_info.set_time)
    /\ latency_call.pass_info.set_time - latency_call.pass_info.rise_time = duration_ms
    /\ latency_call.data_demand_mb = data_mb
    /\ BaseRateOrDefault(latency_call.base_data_rate_mbps) = default_data_rate_mbps
    /\ latency_call.weather_condition = "clear"

\* C14 as stated: for a pass of 360 s and a demand of 1200 MB at the default
\* rate, weather clear, the estimation has is_feasible = false.
C14_ScenarioBInfeasible ==
    EstimatedAtDefaults(360000, 1200) => ~EstimationFeasible(latency_result)

\* C14 amended: for that pass and demand the estimation has is_feasible =
\* true: the total required time is 165.69 s, which is within the 360 s.
C14_ScenarioBFeasible ==
    EstimatedAtDefaults(360000, 1200) =>
        /\ latency_result # None
        /\ latency_result.is_feasible
        /\ latency_result.total_required_time_cs = 16569
        /\ latency_result.total_required_time_us <= latency_result.pass_duration_us

\* C14 witness: the estimator has answered for the 360 s pass and 1200 MB.
C14_Witness ==
    /\ EstimatedAtDefaults(360000, 1200)
    /\ latency_result # None
    /\ latency_result.pass_duration_us = 360000000

\* C15 as stated: for a pass of 600 s and a demand of 150 MB at base rate
\* 150 Mbps, weather clear, the estimation is feasible with a total under
\* 600 s, a data transfer time of about 8 s (taken as 7 s to 9 s) and an
\* overhead of at most about 5 s.
C15_ScenarioATransferAboutEightSeconds ==
    EstimatedAtDefaults(600000, 150) =>
        /\ EstimationFeasible(latency_result)
        /\ latency_result.total_required_time_cs < 60000
        /\ latency_result.data_transfer_time_cs >= 700
        /\ latency_result.data_transfer_time_cs <= 900
        /\ latency_result.overhead_time_cs <= 500

\* C15 amended: for that pass and demand the estimation is feasible with a
\* total of 22.47 s, made up of a data transfer time of 20.46 s (150 MB at the
\* effective rate of 58.65 Mbps) and an overhead of 2.01 s.
C15_ScenarioATransferAtEffectiveRate ==
    EstimatedAtDefaults(600000, 150) =>
        /\ EstimationFeasible(latency_result)
        /\ latency_result.total_required_time_cs = 2247
        /\ latency_result.total_required_time_cs < 60000
        /\ latency_result.data_transfer_time_cs = 2046
        /\ latency_result.overhead_time_cs = 201
        /\ latency_result.effective_data_rate = 5865

\* C15 witness: the estimator has answered for the 600 s pass and 150 MB.
C15_Witness ==
    /\ EstimatedAtDefaults(600000, 150)
    /\ latency_result # None
    /\ latency_result.pass_duration_us = 600000000

PassTimesParse(p) == TimeParses(p.rise_time) /\ TimeParses(p.set_time)

\* C13: for a pass whose rise_time or set_time is missing or does not parse
\* the estimator returns None, and preprocess_scheduling_data keeps no pair
\* of that pass while it keeps every feasible pair of the other passes.
C13_MalformedPassLeftOut ==
    /\ (pc = "estimated" /\ ~PassTimesParse(latency_call.pass_info))
          => latency_result = None
    /\ pc = "preprocessed" =>
          /\ exception = ""
          /\ \A k \in 1..Len(feasible_assignments) :
                PassTimesParse(feasible_assignments[k].pass)
          /\ \A i \in 1..Len(passes) : \A d \in 1..Len(demands) :
                (PassTimesParse(passes[i]) /\ PairFeasible(passes[i], demands[d]))
                    => \E k \in 1..Len(feasible_assignments) :
                          /\ feasible_assignments[k].pass_idx = i
                          /\ feasible_assignments[k].demand_idx = d

\* C13 witness: a pass without rise_time comes first, a well-formed pass
\* after it, and the candidates are those of the well-formed pass.
C13_Witness ==
    /\ pc = "preprocessed"
    /\ Len(passes) = 2
    /\ ~PassTimesParse(passes[1])
    /\ PassTimesParse(passes[2])
    /\ feasible_assignments # <<>>
    /\ \A k \in 1..Len(feasible_assignments) : feasible_assignments[k].pass_idx = 2

\* the call of scenario C has returned with status OPTIMAL: a pass of 300 s
\* and a pass of 1200 s, demands [150 MB, 1200 MB], data-throughput objective
ScenarioCOptimal ==
    /\ Returned
    /\ Len(passes) = 2
    /\ {passes[1].set_time - passes[1].rise_time,
        passes[2].set_time - passes[2].rise_time} = {300000, 1200000}
    /\ PassTimesParse(passes[1]) /\ PassTimesParse(passes[2])
    /\ Len(demands) = 2
    /\ demands[1].data_mb = 150
    /\ demands[2].data_mb = 1200
    /\ objective = "MAXIMIZE_DATA_THROUGHPUT"
    /\ result.optimization_status = "OPTIMAL"

\* both demands of scenario C have a contact
ScenarioCBothScheduled ==
    /\ Len(result.scheduled_contacts) = 2
    /\ result.total_data_scheduled = 1350
    /\ ScheduledCount(1) = 1
    /\ ScheduledCount(2) = 1

\* C16 as stated: in scenario C an OPTIMAL result schedules both demands and
\* the 1200 MB demand is the one in the 1200 s pass.
C16_LargeDemandInLongPass ==
    ScenarioCOptimal =>
        /\ ScenarioCBothScheduled
        /\ \A i \in Chosen :
              feasible_assignments[i].demand.data_mb = 1200
                  => feasible_assignments[i].pass.set_time
                       - feasible_assignments[i].pass.rise_time = 1200000

\* C16 amended: in scenario C an OPTIMAL result schedules both demands, one
\* in each pass (either way round: 1200 MB need 165 s and fit both passes).
C16_BothDemandsScheduled ==
    ScenarioCOptimal =>
        /\ ScenarioCBothScheduled
        /\ \A i \in Chosen : \A j \in Chosen :
              i # j => feasible_assignments[i].pass_idx # feasible_assignments[j].pass_idx

\* C16 witness: scenario C solved to OPTIMAL with the 1200 MB demand in the
\* 1200 s pass.
C16_Witness ==
    /\ ScenarioCOptimal
    /\ Cardinality(Chosen) = 2
    /\ \E i \in Chosen :
          /\ feasible_assignments[i].demand.data_mb = 1200
          /\ feasible_assignments[i].pass.set_time
                - feasible_assignments[i].pass.rise_time = 1200000

\* C20: what a call returns depends on its arguments only.  The result of a
\* solve is drawn from what the search finds within max_time_in_seconds, so
\* this needs the budget of every solve to be the one the arguments of its
\* call give: solver_timeout when given, the default of 300 s otherwise,
\* whatever calls were made before on the instance.
C20_BudgetFromArgumentsOnly ==
    status # "" =>
        max_time_in_seconds
            = TimeoutAfterCall(default_solver_timeout_seconds, solver_timeout)

\* the baseline is in its loop or has returned
BaselineRunning == pc \in {"baseline_loop", "baseline_returned"}

\* the contacts of the baseline that serve a demand equal to v
BaselineContactsOf(v) ==
    Cardinality({k \in 1..Len(baseline.scheduled_contacts) :
                    /\ baseline.scheduled_contacts[k].satellite = v.satellite
                    /\ baseline.scheduled_contacts[k].demand_mb = v.data_mb})

\* sub is s with some positions left out, order kept
IsSubsequence(sub, s) ==
    \E K \in SUBSET (1..Len(s)) : sub = SelectPositions(s, K, 1)

\* C18: in the baseline every input demand is in exactly one of the
\* scheduled contacts and the remaining demands: the two lengths add up to
\* the number of input demands, value by value the occurrences add up (also
\* for demands with identical fields), and the remaining demands are in input
\* order.
C18_BaselinePartitionsDemands ==
    BaselineRunning =>
        /\ Len(baseline.scheduled_contacts) + Len(baseline.remaining_demands)
             = Len(demands)
        /\ \A v \in Range(demands) \cup Range(baseline.remaining_demands) :
              BaselineContactsOf(v) + Occurrences(baseline.remaining_demands, v)
                  = Occurrences(demands, v)
        /\ IsSubsequence(baseline.remaining_demands, demands)

\* C18 witness: the baseline has returned on two demands with identical
\* fields, one of them scheduled and the other remaining.
C18_Witness ==
    /\ pc = "baseline_returned"
    /\ Len(demands) = 2
    /\ demands[1] = demands[2]
    /\ Len(baseline.scheduled_contacts) = 1
    /\ baseline.remaining_demands = <<demands[2]>>

\* the contacts of the baseline are in start order, each starting at or after
\* the end of the one before, and no two intersect
BaselineContactsInOrder ==
    LET cs == baseline.scheduled_contacts
    IN  /\ \A k \in 1..(Len(cs) - 1) :
              /\ cs[k].start_time_us <= cs[k + 1].start_time_us
              /\ cs[k].end_time_us <= cs[k + 1].start_time_us
        /\ \A i \in 1..Len(cs) : \A j \in 1..Len(cs) :
              i # j => (cs[i].end_time_us <= cs[j].start_time_us
                        \/ cs[j].end_time_us <= cs[i].start_time_us)
        /\ \A k \in 1..Len(cs) :
              /\ cs[k].end_time_us = cs[k].start_time_us + cs[k].duration_cs * 10000
              /\ cs[k].end_time_us <= baseline.station_busy_until

\* C19: the contacts of the baseline are in non-decreasing start order, each
\* starts at or after the end (rise + required time) of the contact before,
\* so no two intersect; and station_busy_until never decreases from one
\* step to the next.
C19_BaselineContactsDoNotIntersect ==
    /\ [](BaselineRunning => BaselineContactsInOrder)
    /\ [][baseline'.station_busy_until >= baseline.station_busy_until]_vars

\* C19 witness: the baseline has returned with one contact although a second
\* pass could serve the remaining demand: that pass rises before the contact
\* ends and was passed over.
C19_Witness ==
    /\ pc = "baseline_returned"
    /\ Len(passes) = 2
    /\ Len(baseline.scheduled_contacts) = 1
    /\ baseline.remaining_demands # <<>>
    /\ \E i \in 1..Len(passes) :
          /\ PassTimesParse(passes[i])
          /\ passes[i].rise_time * 1000 > baseline.scheduled_contacts[1].start_time_us
          /\ passes[i].rise_time * 1000 < baseline.scheduled_contacts[1].end_time_us
          /\ PairFeasible(passes[i], baseline.remaining_demands[1])

\* the hard constraints of create_cp_sat_model, read from the candidates and
\* the constraint list: at most one candidate per demand, no two intervals
\* overlapping, no pass after a demand's deadline, every satellite that has a
\* candidate within every cap
HardConstraintsHold(fa, cs, S) ==
    /\ \A i \in S : \A j \in S :
          i # j => /\ fa[i].demand_idx # fa[j].demand_idx
                   /\ \/ fa[i].pass.rise_time \div 1000 + fa[i].duration_seconds
                             <= fa[j].pass.rise_time \div 1000
                      \/ fa[j].pass.rise_time \div 1000 + fa[j].duration_seconds
                             <= fa[i].pass.rise_time \div 1000
    /\ \A i \in S : fa[i].demand.deadline # NoDeadline
                        => fa[i].pass.rise_time <= fa[i].demand.deadline
    /\ \A k \in 1..Len(cs) :
          cs[k].constraint_type = "maximum_contacts_per_satellite"
             => \A i \in 1..Len(fa) :
                   Cardinality({j \in S : fa[j].demand.satellite = fa[i].demand.satellite})
                      <= cs[k].value

Admissible(fa, cs) == {S \in SUBSET (1..Len(fa)) : HardConstraintsHold(fa, cs, S)}

WithoutMinimumGap(cs) ==
    SelectPositions(cs, {k \in 1..Len(cs) : cs[k].constraint_type # "minimum_gap"}, 1)

GivesMinimumGap(cs) == \E k \in 1..Len(cs) : cs[k].constraint_type = "minimum_gap"

\* C21: a minimum_gap constraint adds nothing to the model: the selections
\* the model handed to the solver admits are the ones the hard constraints without the
\* minimum_gap entry admit, and the model carries the same linear rows as
\* the model built from the list without it.
C21_MinimumGapAddsNothing ==
    (pc = "modelled" /\ GivesMinimumGap(constraints)) =>
        /\ Solutions(model)
              = Admissible(feasible_assignments, WithoutMinimumGap(constraints))
        /\ model.sum_le
              = UNION {CustomConstraintRows(feasible_assignments, c) :
                          c \in Range(WithoutMinimumGap(constraints))}

\* C21 witness: a result under minimum_gap 300 s with two contacts, the
\* later starting less than 300 s after the end of the earlier.
C21_Witness ==
    /\ Returned
    /\ GivesMinimumGap(constraints)
    /\ \E a \in 1..Len(result.scheduled_contacts) :
       \E b \in 1..Len(result.scheduled_contacts) :
          /\ result.scheduled_contacts[a].end_time <= result.scheduled_contacts[b].start_time
          /\ result.scheduled_contacts[b].start_time
                - result.scheduled_contacts[a].end_time < 300000

DataOf(fa, S) == SumOver([i \in 1..Len(fa) |-> fa[i].demand.data_mb], S)

WeightedDataOf(fa, S) ==
    SumOver([i \in 1..Len(fa) |-> fa[i].demand.data_mb * fa[i].demand.priority], S)

\* C23: an OPTIMAL result under MAXIMIZE_PRIORITY_WEIGHTED maximizes the sum
\* of demand size times priority over the selections satisfying the hard
\* constraints, and with every priority 1.0 its objective value is the
\* largest amount of data an admissible selection carries.
C23_PriorityWeightedIsMaximal ==
    (Returned /\ objective = "MAXIMIZE_PRIORITY_WEIGHTED" /\ status = "OPTIMAL") =>
        /\ \A S \in Admissible(feasible_assignments, constraints) :
              WeightedDataOf(feasible_assignments, S)
                 <= WeightedDataOf(feasible_assignments, Chosen)
        /\ (\A d \in 1..Len(demands) : demands[d].priority = 10) =>
              \A S \in Admissible(feasible_assignments, constraints) :
                 DataOf(feasible_assignments, S) <= result.objective_value

\* the passes still to visit are in ascending rise time
PassesAscending(ps) ==
    \A k \in 1..(Len(ps) - 1) :
        (TimeParses(ps[k].rise_time) /\ TimeParses(ps[k + 1].rise_time))
           => ps[k].rise_time <= ps[k + 1].rise_time

\* the step that visits the pass at the head of sorted_passes: when the pass
\* rises at or after the cursor and some queued demand is feasible for it,
\* the first such demand leaves the queue and gets the one new contact, at
\* the rise time of the pass; otherwise nothing is scheduled
GreedyVisit ==
    LET p == Head(sorted_passes)
        queue == baseline.remaining_demands
        feasible == {i \in 1..Len(queue) : PairFeasible(p, queue[i])}
    IN  IF p.rise_time * 1000 >= baseline.station_busy_until /\ feasible # {}
        THEN \E k \in feasible :
                /\ \A j \in feasible : k <= j
                /\ baseline'.remaining_demands
                      = SubSeq(queue, 1, k - 1) \o SubSeq(queue, k + 1, Len(queue))
                /\ Len(baseline'.scheduled_contacts) = Len(baseline.scheduled_contacts) + 1
                /\ SubSeq(baseline'.scheduled_contacts, 1, Len(baseline.scheduled_contacts))
                      = baseline.scheduled_contacts
                /\ LET c == baseline'.scheduled_contacts[Len(baseline'.scheduled_contacts)]
                   IN  /\ c.satellite = queue[k].satellite
                       /\ c.demand_mb = queue[k].data_mb
                       /\ c.start_time_us = p.rise_time * 1000
        ELSE baseline' = baseline

\* C24: the baseline visits the passes in ascending rise time, handles each
\* visited pass greedily (first feasible demand of the queue, one contact at
\* most, none when the pass rises before the cursor), examines no pass once
\* the queue is empty, and so schedules at most min(passes, demands)
\* contacts, no two of them in one pass.
C24_BaselineChronologicalGreedy ==
    /\ [](BaselineRunning =>
            /\ PassesAscending(sorted_passes)
            /\ Len(baseline.scheduled_contacts) <= Min(Len(passes), Len(demands))
            /\ \A a \in 1..Len(baseline.scheduled_contacts) :
               \A b \in 1..Len(baseline.scheduled_contacts) :
                  a # b => baseline.scheduled_contacts[a].start_time_us
                              # baseline.scheduled_contacts[b].start_time_us)
    /\ [][(pc = "baseline_loop" /\ pc' = "baseline_loop")
            => /\ sorted_passes' = Tail(sorted_passes)
               /\ baseline.remaining_demands # <<>>
               /\ GreedyVisit]_vars

\* contact c is the contact of candidate a: it starts at the rise time of
\* a's pass and ends duration_seconds later
IsContactOf(c, a) ==
    /\ c.start_time = a.pass.rise_time
    /\ c.end_time = a.pass.rise_time + a.duration_seconds * 1000
    /\ c.duration_seconds = a.duration_seconds
    /\ c.satellite = a.demand.satellite
    /\ c.demand_mb = a.demand.data_mb

\* C25: in every result scheduled_contacts is in non-decreasing start time,
\* holds one contact per selected candidate and no other, and each contact
\* starts at the rise time of its pass and ends that rise time plus the
\* candidate's integer duration_seconds.
C25_ContactsSortedByStart ==
    Returned =>
        LET cs == result.scheduled_contacts
        IN  /\ \A k \in 1..(Len(cs) - 1) : cs[k].start_time <= cs[k + 1].start_time
            /\ Len(cs) = Cardinality(Chosen)
            /\ \A i \in Chosen : \E k \in 1..Len(cs) : IsContactOf(cs[k], feasible_assignments[i])
            /\ \A k \in 1..Len(cs) : \E i \in Chosen : IsContactOf(cs[k], feasible_assignments[i])

\* C25 witness: a result with two contacts whose candidates were extracted
\* later pass first.
C25_Witness ==
    /\ Returned
    /\ Len(result.scheduled_contacts) = 2
    /\ \E i \in Chosen : \E j \in Chosen :
          /\ i < j
          /\ feasible_assignments[i].pass.rise_time > feasible_assignments[j].pass.rise_time
    /\ result.scheduled_contacts[1].start_time < result.scheduled_contacts[2].start_time

\* C26: from the call on, no step of create_baseline_schedule or of
\* create_advanced_schedule changes the caller's pass list or demand list.
C26_InputsLeftUnchanged ==
    [][pc # "idle" => (passes' = passes /\ demands' = demands)]_vars

\* C26 witness: the baseline has returned after taking a demand from its
\* queue, and the caller's list still holds both demands.
C26_Witness ==
    /\ pc = "baseline_returned"
    /\ Len(demands) = 2
    /\ Len(baseline.remaining_demands) = 1
    /\ Len(baseline.scheduled_contacts) = 1
    /\ sorted_passes # passes

\* C27: every scheduled contact ends no later than the set time of the pass
\* it is assigned to, and the integer duration_seconds of a candidate does
\* not exceed the time the estimator requires for it.
C27_ContactEndsBeforePassSets ==
    /\ \A i \in 1..Len(feasible_assignments) :
          LET a == feasible_assignments[i]
              e == estimate_transfer_time_detailed(a.pass, a.demand.data_mb,
                                                   default_data_rate_mbps, "clear")
          IN  /\ e.pass_duration_us >= e.total_required_time_us
              /\ a.duration_seconds * 1000000 <= e.total_required_time_us
    /\ Returned =>
          \A k \in 1..Len(result.scheduled_contacts) :
             \E i \in Chosen :
                /\ IsContactOf(result.scheduled_contacts[k], feasible_assignments[i])
                /\ result.scheduled_contacts[k].end_time
                      <= feasible_assignments[i].pass.set_time

\* C28: every candidate lasts at least 2 s, and in any result no two
\* contacts are in the same pass or in two passes with equal rise times.
C28_OneContactPerPass ==
    /\ \A i \in 1..Len(feasible_assignments) : feasible_assignments[i].duration_seconds >= 2
    /\ Returned =>
          \A i \in Chosen : \A j \in Chosen :
             i # j => /\ feasible_assignments[i].pass_idx # feasible_assignments[j].pass_idx
                      /\ feasible_assignments[i].pass.rise_time
                            # feasible_assignments[j].pass.rise_time

\* C28 witness: two passes with equal rise times, each able to serve either
\* of two demands, and an OPTIMAL result with a single contact.
C28_Witness ==
    /\ Returned
    /\ status = "OPTIMAL"
    /\ Len(passes) = 2
    /\ passes[1].rise_time = passes[2].rise_time
    /\ Len(demands) = 2
    /\ Len(feasible_assignments) = 4
    /\ Len(result.scheduled_contacts) = 1

MaxContactsLimits(cs) ==
    {cs[k].value : k \in {j \in 1..Len(cs) :
                             cs[j].constraint_type = "maximum_contacts_per_satellite"}}

\* C29: a built model (the candidate pool is not empty) whose max_contacts
\* limits are all at least 0 admits the empty selection, and a completed
\* solve of it does not end INFEASIBLE; the models handed to the solver
\* that no selection satisfies are those built under a negative max_contacts.
C29_EmptySelectionSatisfiesModel ==
    /\ (model.built /\ \A n \in MaxContactsLimits(constraints) : n >= 0) =>
          /\ Satisfies(model, {})
          /\ HardConstraintsHold(feasible_assignments, constraints, {})
          /\ status # "INFEASIBLE"
          /\ Returned => result.optimization_status # "INFEASIBLE"
    /\ (pc = "modelled" /\ Solutions(model) = {}) =>
          \E n \in MaxContactsLimits(constraints) : n < 0
    /\ (pc = "modelled" /\ \E n \in MaxContactsLimits(constraints) : n < 0) =>
          Solutions(model) = {}

\* C29 witness: with max_contacts 0 and candidates in the pool the solve
\* ends OPTIMAL with the empty selection.
C29_Witness ==
    /\ Returned
    /\ constraints = <<MaxContacts(0)>>
    /\ Len(feasible_assignments) >= 2
    /\ status = "OPTIMAL"
    /\ selected = {}
    /\ result.scheduled_contacts = <<>>

\* C30: under MINIMIZE_SCHEDULE_SPAN the model handed to the solver is the model
\* MAXIMIZE_DATA_THROUGHPUT builds from the same candidates and constraints,
\* and an OPTIMAL result carries the largest amount of data an admissible
\* selection can carry, as its objective value.
C30_SpanBuildsThroughputModel ==
    objective = "MINIMIZE_SCHEDULE_SPAN" =>
        /\ pc = "modelled" =>
              /\ model = create_cp_sat_model(feasible_assignments,
                                             "MAXIMIZE_DATA_THROUGHPUT", constraints)
              /\ \A i \in 1..Len(feasible_assignments) :
                    model.maximize[i] = feasible_assignments[i].demand.data_mb
        /\ (Returned /\ status = "OPTIMAL") =>
              /\ \A S \in Admissible(feasible_assignments, constraints) :
                    DataOf(feasible_assignments, S) <= result.objective_value
              /\ result.objective_value = DataOf(feasible_assignments, Chosen)

\* C30 witness: an OPTIMAL result under MINIMIZE_SCHEDULE_SPAN with contacts
\* in both passes, 200 s apart, where one contact alone is admissible.
C30_Witness ==
    /\ Returned
    /\ objective = "MINIMIZE_SCHEDULE_SPAN"
    /\ status = "OPTIMAL"
    /\ Len(result.scheduled_contacts) = 2
    /\ result.scheduled_contacts[2].start_time - result.scheduled_contacts[1].start_time
          >= 200000

====
